---- MODULE Spec2Model ----
(***************************************************************************)
(* Model of the Adobe AEM command line client (src/src/index.js,           *)
(* src/src/api.js and the configuration store of src/unnamed/part_001).    *)
(*                                                                         *)
(* One behaviour is one invocation: either a CLI command (index.js) or a   *)
(* direct call of one of the nine exported resource operations (api.js).   *)
(* A resource operation has one suspension point, the HTTP request: the    *)
(* first step of a command runs up to the request, the second step is the  *)
(* server's answer and everything the handler does with it.               *)
(*                                                                         *)
(* Strings the code inspects character by character (property keys, for    *)
(* startsWith, and repository paths, for concatenation) are sequences of   *)
(* one-character strings; strings the code only tests for emptiness or     *)
(* copies are TLA+ strings.                                                *)
(***************************************************************************)
EXTENDS Integers, Sequences, FiniteSets, TLC

VARIABLES
    store,      \* the Conf store: username, password, baseUrl
    pc,         \* "ready" | "awaiting" | "exited" (CLI) | "returned" (direct call)
    call,       \* the invocation: command, arguments, --json, CLI or direct
    requests,   \* HTTP requests issued so far in this invocation
    response,   \* the server's answer to the request, once it is in
    outcome,    \* what the resource operation returned or threw
    out,        \* lines printed on stdout / stderr
    exitCode,   \* process exit status (meaningful when pc = "exited")
    written     \* history: per key, the value 'config set' last wrote in an
                \* earlier invocation of this behaviour (undefined if none)

vars == <<store, pc, call, requests, response, outcome, out, exitCode, written>>

----------------------------------------------------------------------------
(* Bounds of the model *)

\* longest server document, in properties
MaxProps == 2
\* largest --limit value tried
MaxLimit == 2

----------------------------------------------------------------------------
(* JavaScript values *)

Undefined == [t |-> "undefined"]
Null == [t |-> "null"]
Str(s) == [t |-> "string", s |-> s]
Num(n) == [t |-> "number", n |-> n]
Arr == [t |-> "array"]
Obj(props) == [t |-> "object", props |-> props]

\* typeof v === 'object'
TypeofObject(v) == v.t \in {"null", "array", "object"}

\* ToBoolean(v), as used by !, || and &&
Truthy(v) ==
    CASE v.t = "undefined" -> FALSE
      [] v.t = "null" -> FALSE
      [] v.t = "string" -> v.s # ""
      [] v.t = "keystring" -> v.chars # <<>>
      [] v.t = "number" -> v.n # 0
      [] OTHER -> TRUE

\* v[k] throws a TypeError when v is null or undefined
Throws(v) == v.t \in {"undefined", "null"}

\* v[k] for a value on which property access does not throw
Get(v, k) ==
    IF v.t = "object" /\ k \in DOMAIN v.props THEN v.props[k] ELSE Undefined

\* v?.[k]
OptGet(v, k) == IF Throws(v) THEN Undefined ELSE Get(v, k)

\* a || b
Or(a, b) == IF Truthy(a) THEN a ELSE b

----------------------------------------------------------------------------
(* Strings as character sequences *)

\* s.startsWith(p)
StartsWith(s, p) == Len(s) >= Len(p) /\ SubSeq(s, 1, Len(p)) = p

JcrPrefix == <<"j", "c", "r", ":">>
RepPolicy == <<"r", "e", "p", ":", "p", "o", "l", "i", "c", "y">>
KeyJcrContent == <<"j", "c", "r", ":", "c", "o", "n", "t", "e", "n", "t">>
KeyJcrPrimaryType ==
    <<"j", "c", "r", ":", "p", "r", "i", "m", "a", "r", "y", "T", "y", "p", "e">>
KeyImg1 == <<"i", "m", "g", "1">>
KeyPath == <<"p", "a", "t", "h">>

\* a key or a path used as a JavaScript string value
KeyStr(k) == [t |-> "keystring", chars |-> k]

\* `${path}/${key}`
ChildPath(path, key) == path \o <<"/">> \o key

RECURSIVE ParseDigits(_, _)
ParseDigits(s, acc) ==
    IF s = <<>> THEN acc
    ELSE LET d == CHOOSE n \in 0..9 : ToString(n) = Head(s)
         IN ParseDigits(Tail(s), 10 * acc + d)

\* parseInt(s) for a string of decimal digits
ParseInt(s) == ParseDigits(s, 0)

----------------------------------------------------------------------------
(* Server documents: a JSON object is the sequence of its properties, in    *)
(* the order Object.entries yields them.                                    *)

Content1 == Obj("jcr:title" :> Str("Photo"))
ObjNoType == Obj("jcr:content" :> Content1)
ObjEmptyType == Obj("jcr:primaryType" :> Str(""))
ObjAsset == Obj("jcr:primaryType" :> Str("dam:Asset"))
\* an asset with a title and no MIME type
ObjAssetTitled ==
    Obj("jcr:primaryType" :> Str("dam:Asset") @@ "jcr:content" :> Content1)
\* an asset with a MIME type and an empty title
ObjAssetMime ==
    Obj("jcr:primaryType" :> Str("dam:Asset")
        @@ "jcr:content" :> Obj("jcr:title" :> Str("")
                                @@ "jcr:mimeType" :> Str("image/png")))

DocKeys == {KeyJcrContent, KeyJcrPrimaryType, RepPolicy, KeyImg1, KeyPath}
DocValues ==
    {Null, Arr, Str("x"), ObjNoType, ObjEmptyType, ObjAsset, ObjAssetTitled,
     ObjAssetMime}
DocEntries == [k : DocKeys, v : DocValues]

Docs ==
    UNION {{d \in [1..n -> DocEntries] :
               \A i, j \in 1..n : i < j => d[i].k # d[j].k} : n \in 0..MaxProps}

\* data[key] of a document
DocGet(data, key) ==
    IF \E i \in 1..Len(data) : data[i].k = key
    THEN data[CHOOSE i \in 1..Len(data) : data[i].k = key].v
    ELSE Undefined

----------------------------------------------------------------------------
(* Results of a computation that may throw *)

Return(v) == [ok |-> TRUE, value |-> v]
Throw(e) == [ok |-> FALSE, error |-> e]

\* an error object; response and request are the fields axios sets on its errors
Error(message) ==
    [name |-> "Error", message |-> message, response |-> Undefined, request |-> FALSE]
TypeError ==
    [name |-> "TypeError", message |-> <<"Cannot read properties of null">>,
     response |-> Undefined, request |-> FALSE]
\* axios rejects a response whose status is outside 2xx
AxiosError(status, data) ==
    [name |-> "AxiosError", message |-> <<"Request failed with status code">>,
     response |-> [t |-> "response", status |-> status, data |-> data],
     request |-> TRUE]
\* the request was sent and no response came
NetworkError ==
    [name |-> "AxiosError", message |-> <<"Network Error">>,
     response |-> Undefined, request |-> TRUE]

Rows(rows) == [t |-> "rows", rows |-> rows]
Document(entries) == [t |-> "document", entries |-> entries]

----------------------------------------------------------------------------
(* api.js: the projection of a document to rows *)

\* the skip test without its rep:policy clause
IsSkipped_jcrOnly(key) == StartsWith(key, JcrPrefix)

\* key.startsWith('jcr:') || key === 'rep:policy'
IsSkipped(key) == StartsWith(key, JcrPrefix) \/ key = RepPolicy

\* the asset row with 'N/A' as the fallback of the title too
AssetRow_titleNA(path, key, value) ==
    [name |-> key,
     path |-> ChildPath(path, key),
     type |-> Get(value, "jcr:primaryType"),
     title |-> Or(OptGet(Get(value, "jcr:content"), "jcr:title"), Str("N/A")),
     mimeType |-> Or(OptGet(Get(value, "jcr:content"), "jcr:mimeType"), Str("N/A")),
     lastModified |->
         Or(OptGet(Get(value, "jcr:content"), "jcr:lastModified"), Str("N/A"))]

\* the row listAssets pushes for a retained child
AssetRow(path, key, value) ==
    [name |-> key,
     path |-> ChildPath(path, key),
     type |-> Get(value, "jcr:primaryType"),
     title |-> Or(OptGet(Get(value, "jcr:content"), "jcr:title"), KeyStr(key)),
     mimeType |-> Or(OptGet(Get(value, "jcr:content"), "jcr:mimeType"), Str("N/A")),
     lastModified |->
         Or(OptGet(Get(value, "jcr:content"), "jcr:lastModified"), Str("N/A"))]

\* if (assets.length >= limit) break
LimitReached(rows, limit) == Len(rows) >= limit

RECURSIVE AssetsLoop(_, _, _, _, _)
AssetsLoop(data, path, limit, i, assets) ==
    IF i > Len(data) THEN Return(Rows(assets))
    ELSE LET key == data[i].k
             value == data[i].v
         IN IF IsSkipped(key) THEN AssetsLoop(data, path, limit, i + 1, assets)
            ELSE IF ~TypeofObject(value)
                 THEN AssetsLoop(data, path, limit, i + 1, assets)
            ELSE IF Throws(value) THEN Throw(TypeError)
            ELSE IF ~Truthy(Get(value, "jcr:primaryType"))
                 THEN AssetsLoop(data, path, limit, i + 1, assets)
            ELSE LET pushed == Append(assets, AssetRow(path, key, value))
                 IN IF LimitReached(pushed, limit) THEN Return(Rows(pushed))
                    ELSE AssetsLoop(data, path, limit, i + 1, pushed)

\* the row listPages pushes
PageRow(path, key, value) ==
    [name |-> key,
     path |-> ChildPath(path, key),
     title |-> Or(OptGet(Get(value, "jcr:content"), "jcr:title"), KeyStr(key)),
     template |-> Or(OptGet(Get(value, "jcr:content"), "cq:template"), Str("N/A")),
     lastModified |->
         Or(OptGet(Get(value, "jcr:content"), "cq:lastModified"), Str("N/A"))]

RECURSIVE PagesLoop(_, _, _, _, _)
PagesLoop(data, path, limit, i, pages) ==
    IF i > Len(data) THEN Return(Rows(pages))
    ELSE LET key == data[i].k
             value == data[i].v
         IN IF IsSkipped(key) THEN PagesLoop(data, path, limit, i + 1, pages)
            ELSE IF ~TypeofObject(value)
                 THEN PagesLoop(data, path, limit, i + 1, pages)
            ELSE IF Throws(value) THEN Throw(TypeError)
            ELSE LET pushed == Append(pages, PageRow(path, key, value))
                 IN IF LimitReached(pushed, limit) THEN Return(Rows(pushed))
                    ELSE PagesLoop(data, path, limit, i + 1, pushed)

\* the row listTags pushes
TagRow(namespace, key, value) ==
    [name |-> key,
     path |-> ChildPath(namespace, key),
     title |-> Or(Get(value, "jcr:title"), KeyStr(key)),
     description |-> Or(Get(value, "jcr:description"), Str("N/A")),
     count |-> Or(Get(value, "cq:count"), Num(0))]

RECURSIVE TagsLoop(_, _, _, _)
TagsLoop(data, namespace, i, tags) ==
    IF i > Len(data) THEN Return(Rows(tags))
    ELSE LET key == data[i].k
             value == data[i].v
         IN IF IsSkipped(key) THEN TagsLoop(data, namespace, i + 1, tags)
            ELSE IF ~TypeofObject(value) THEN TagsLoop(data, namespace, i + 1, tags)
            ELSE IF Throws(value) THEN Throw(TypeError)
            ELSE TagsLoop(data, namespace, i + 1,
                          Append(tags, TagRow(namespace, key, value)))

\* { path: p, ...data }: a property of data named like an earlier one
\* takes that one's place and overwrites its value
RECURSIVE Spread(_, _)
Spread(acc, data) ==
    IF data = <<>> THEN acc
    ELSE LET e == Head(data)
         IN IF \E i \in 1..Len(acc) : acc[i].k = e.k
            THEN Spread([i \in 1..Len(acc) |->
                            IF acc[i].k = e.k THEN e ELSE acc[i]], Tail(data))
            ELSE Spread(Append(acc, e), Tail(data))

WithPath(path, data) == Spread(<<[k |-> KeyPath, v |-> KeyStr(path)]>>, data)

----------------------------------------------------------------------------
(* config.js and the client factory of api.js *)

ConfigKeys == {"username", "password", "baseUrl"}

\* config.get(key) on a store s
GetConfig(s, key) == IF key \in DOMAIN s THEN s[key] ELSE Undefined

\* !!config.get('username') && !!config.get('password')
IsConfigured(s) == Truthy(GetConfig(s, "username")) /\ Truthy(GetConfig(s, "password"))

DEFAULT_BASE_URL == Str("http://localhost:4502")

MsgNotConfigured ==
    <<"AEM credentials not configured. Run: adobe config set --username admin --password admin">>

\* the credentials test with && for ||
CredentialsMissing_both(s) ==
    ~Truthy(GetConfig(s, "username")) /\ ~Truthy(GetConfig(s, "password"))

\* if (!username || !password) throw
CredentialsMissing(s) ==
    ~Truthy(GetConfig(s, "username")) \/ ~Truthy(GetConfig(s, "password"))

GetClient(s) ==
    IF CredentialsMissing(s) THEN Throw(Error(MsgNotConfigured))
    ELSE Return([baseURL |-> Or(GetConfig(s, "baseUrl"), DEFAULT_BASE_URL),
                 auth |-> [username |-> GetConfig(s, "username"),
                           password |-> GetConfig(s, "password")]])

\* JSON.stringify(data), for the bodies the model sends
JsonStringify(data) ==
    CASE data.t = "string" -> "\"" \o data.s \o "\""
      [] data.t = "null" -> "null"
      [] data.t = "object" /\ DOMAIN data.props = {} -> "{}"
      [] OTHER -> "{...}"

\* data?.error?.message || data?.message || JSON.stringify(data)
ApiErrorMessage(data) ==
    LET m == Or(OptGet(OptGet(data, "error"), "message"), OptGet(data, "message"))
    IN IF Truthy(m) THEN m.s ELSE JsonStringify(data)

MsgUnauthorized == <<"Authentication failed. Check your AEM credentials.">>
MsgForbidden == <<"Access forbidden. Check your AEM user permissions.">>
MsgNotFound == <<"Resource not found in AEM.">>
MsgServerError == <<"AEM server error. Check your AEM instance.">>

\* the status mapping without its 404 line
StatusMessage_no404(status, data) ==
    CASE status = 401 -> MsgUnauthorized
      [] status = 403 -> MsgForbidden
      [] status = 500 -> MsgServerError
      [] OTHER -> <<"API Error (", ToString(status), "): ", ApiErrorMessage(data)>>

\* the message handleApiError gives a response of this status
StatusMessage(status, data) ==
    CASE status = 401 -> MsgUnauthorized
      [] status = 403 -> MsgForbidden
      [] status = 404 -> MsgNotFound
      [] status = 500 -> MsgServerError
      [] OTHER -> <<"API Error (", ToString(status), "): ", ApiErrorMessage(data)>>

\* handleApiError never returns: this is the error it throws
HandleApiError(error, s) ==
    IF error.response # Undefined
    THEN Error(StatusMessage(error.response.status, error.response.data))
    ELSE IF error.request
    THEN Error(<<"No response from AEM at ",
                 Or(GetConfig(s, "baseUrl"), DEFAULT_BASE_URL).s,
                 ". Is your AEM instance running?">>)
    ELSE error

\* every operation's catch block: an error thrown in the try block goes
\* through handleApiError
Caught(r, s) == IF r.ok THEN r ELSE Throw(HandleApiError(r.error, s))

----------------------------------------------------------------------------
(* api.js: the nine resource operations.  XRequest is the request the       *)
(* operation sends through the client; X is what it returns or throws once  *)
(* the server's answer is in (answer.ok: a 2xx response carrying            *)
(* answer.data; otherwise the error axios rejects with).                    *)

DEFAULT_TEMPLATE == Str("/libs/wcm/foundation/templates/page")

HttpRequest(method, url, body) == [method |-> method, url |-> url, body |-> body]

ListAssetsRequest(a) == HttpRequest("GET", a.path \o <<".infinity.json">>, Undefined)
ListAssets(a, answer, s) ==
    Caught(IF answer.ok THEN AssetsLoop(answer.data, a.path, a.limit, 1, <<>>)
           ELSE Throw(answer.error), s)

GetAssetRequest(a) == HttpRequest("GET", a.path \o <<".infinity.json">>, Undefined)
GetAsset(a, answer, s) ==
    Caught(IF answer.ok THEN Return(Document(WithPath(a.path, answer.data)))
           ELSE Throw(answer.error), s)

UploadAssetRequest(a) ==
    HttpRequest("POST", a.damPath \o <<".createasset.html">>,
                [file |-> a.fileName, contentType |-> a.mimeType,
                 fileName |-> a.fileName])
UploadAsset(a, answer, s) ==
    Caught(IF answer.ok THEN Return(answer.data) ELSE Throw(answer.error), s)

ListPagesRequest(a) == HttpRequest("GET", a.path \o <<".1.json">>, Undefined)
ListPages(a, answer, s) ==
    Caught(IF answer.ok THEN PagesLoop(answer.data, a.path, a.limit, 1, <<>>)
           ELSE Throw(answer.error), s)

GetPageRequest(a) == HttpRequest("GET", a.path \o <<".infinity.json">>, Undefined)
GetPage(a, answer, s) ==
    Caught(IF answer.ok THEN Return(Document(WithPath(a.path, answer.data)))
           ELSE Throw(answer.error), s)

CreatePageRequest(a) ==
    HttpRequest("POST", a.parent,
                [name |-> a.name, primaryType |-> "cq:Page",
                 contentPrimaryType |-> "cq:PageContent", title |-> a.title,
                 template |-> Or(a.template, DEFAULT_TEMPLATE)])
CreatePage(a, answer, s) ==
    Caught(IF answer.ok
           THEN Return([t |-> "page", path |-> ChildPath(a.parent, a.name),
                        title |-> a.title, template |-> a.template])
           ELSE Throw(answer.error), s)

ListTagsRequest(a) == HttpRequest("GET", a.namespace \o <<".1.json">>, Undefined)
ListTags(a, answer, s) ==
    Caught(IF answer.ok THEN TagsLoop(answer.data, a.namespace, 1, <<>>)
           ELSE Throw(answer.error), s)

CreateTagRequest(a) ==
    HttpRequest("POST", ChildPath(a.namespace, a.name),
                IF Truthy(a.description)
                THEN [primaryType |-> "cq:Tag", title |-> a.title,
                      description |-> a.description]
                ELSE [primaryType |-> "cq:Tag", title |-> a.title])
CreateTag(a, answer, s) ==
    Caught(IF answer.ok
           THEN Return([t |-> "tag", path |-> ChildPath(a.namespace, a.name),
                        name |-> a.name, title |-> a.title,
                        description |-> a.description])
           ELSE Throw(answer.error), s)

\* deleteTag asking for the JSON view of the tag, as the GET operations do
DeleteTagRequest_suffixed(a) == HttpRequest("DELETE", a.path \o <<".json">>, Undefined)

DeleteTagRequest(a) == HttpRequest("DELETE", a.path, Undefined)
DeleteTag(a, answer, s) ==
    Caught(IF answer.ok THEN Return(Undefined) ELSE Throw(answer.error), s)

Operations ==
    {"listAssets", "getAsset", "uploadAsset", "listPages", "getPage",
     "createPage", "listTags", "createTag", "deleteTag"}

OpRequest(op, a) ==
    CASE op = "listAssets" -> ListAssetsRequest(a)
      [] op = "getAsset" -> GetAssetRequest(a)
      [] op = "uploadAsset" -> UploadAssetRequest(a)
      [] op = "listPages" -> ListPagesRequest(a)
      [] op = "getPage" -> GetPageRequest(a)
      [] op = "createPage" -> CreatePageRequest(a)
      [] op = "listTags" -> ListTagsRequest(a)
      [] op = "createTag" -> CreateTagRequest(a)
      [] op = "deleteTag" -> DeleteTagRequest(a)

OpOutcome(op, a, answer, s) ==
    CASE op = "listAssets" -> ListAssets(a, answer, s)
      [] op = "getAsset" -> GetAsset(a, answer, s)
      [] op = "uploadAsset" -> UploadAsset(a, answer, s)
      [] op = "listPages" -> ListPages(a, answer, s)
      [] op = "getPage" -> GetPage(a, answer, s)
      [] op = "createPage" -> CreatePage(a, answer, s)
      [] op = "listTags" -> ListTags(a, answer, s)
      [] op = "createTag" -> CreateTag(a, answer, s)
      [] op = "deleteTag" -> DeleteTag(a, answer, s)

----------------------------------------------------------------------------
(* The server *)

ErrorStatuses == {401, 403, 404, 500, 418}
ErrorBodies ==
    {Obj("error" :> Obj("message" :> Str("boom"))), Obj("message" :> Str("bad")),
     Str("gone"), Null}

\* what the server may answer to a request of operation op
Answers(op) ==
    (IF op \in {"listAssets", "getAsset", "listPages", "getPage", "listTags"}
     THEN {[ok |-> TRUE, data |-> d] : d \in Docs}
     ELSE {[ok |-> TRUE, data |-> Str("ok")]})
    \cup {[ok |-> FALSE, error |-> AxiosError(st, b)] :
              st \in ErrorStatuses, b \in ErrorBodies}
    \cup {[ok |-> FALSE, error |-> NetworkError]}

----------------------------------------------------------------------------
(* index.js: printing *)

PrintSuccess(message) == [fd |-> "stdout", kind |-> "success", text |-> message]
PrintError(message) == [fd |-> "stderr", kind |-> "error", text |-> message]
Log(label, value) == [fd |-> "stdout", kind |-> "log", label |-> label, value |-> value]
PrintJson(data) == <<[fd |-> "stdout", kind |-> "json", data |-> data]>>

\* the cells are not formatted here: a table is its columns and its rows
PrintTable(data, columns) ==
    IF Len(data) = 0 THEN <<Log("No results found.", Undefined)>>
    ELSE <<[fd |-> "stdout", kind |-> "table", columns |-> columns, rows |-> data,
            count |-> Len(data)]>>

\* what requireAuth prints before process.exit(1)
RequireAuthOutput ==
    <<PrintError(<<"AEM credentials not configured.">>),
      Log("Run the following to configure:", Undefined),
      Log("  adobe config set --username admin --password admin", Undefined),
      Log("  adobe config set --base-url http://localhost:4502", Undefined)>>

\* the commands that declare .option('--json')
JsonCommands ==
    {"assets list", "assets get", "assets upload", "pages list", "pages get",
     "pages create", "tags list", "tags create"}
Commands == JsonCommands \cup {"config set", "config get", "config list", "tags delete"}

\* the details view of 'assets get'
AssetDetails(c, asset) ==
    LET content == DocGet(asset.entries, KeyJcrContent)
    IN <<Log("Asset Details", Undefined),
         Log("Path:", KeyStr(c.args.path)),
         Log("Title:", Or(OptGet(content, "jcr:title"), Str("N/A"))),
         Log("MIME Type:", Or(OptGet(content, "jcr:mimeType"), Str("N/A"))),
         Log("Type:", Or(DocGet(asset.entries, KeyJcrPrimaryType), Str("N/A"))),
         Log("Modified:", Or(OptGet(content, "jcr:lastModified"), Str("N/A")))>>

\* the details view of 'pages get'
PageDetails(c, page) ==
    LET content == DocGet(page.entries, KeyJcrContent)
    IN <<Log("Page Details", Undefined),
         Log("Path:", KeyStr(c.args.path)),
         Log("Title:", Or(OptGet(content, "jcr:title"), Str("N/A"))),
         Log("Template:", Or(OptGet(content, "cq:template"), Str("N/A"))),
         Log("Modified:", Or(OptGet(content, "cq:lastModified"), Str("N/A"))),
         Log("Type:", Or(DocGet(page.entries, KeyJcrPrimaryType), Str("N/A")))>>

\* what a handler prints once its operation has returned value
SuccessOutput(c, value) ==
    IF c.json /\ c.cmd \in JsonCommands THEN PrintJson(value)
    ELSE CASE c.cmd = "assets list" ->
                PrintTable(value.rows, <<"name", "title", "type", "mimeType", "path">>)
           [] c.cmd = "assets get" -> AssetDetails(c, value)
           [] c.cmd = "assets upload" ->
                <<PrintSuccess(<<"Asset uploaded: ", c.args.fileName, " to ",
                                 c.args.damPath>>)>>
           [] c.cmd = "pages list" ->
                PrintTable(value.rows, <<"name", "title", "template", "path">>)
           [] c.cmd = "pages get" -> PageDetails(c, value)
           [] c.cmd = "pages create" ->
                <<PrintSuccess(<<"Page created: ", c.args.title>>),
                  Log("Path:", KeyStr(ChildPath(c.args.parent, c.args.name))),
                  Log("Template:", c.args.template)>>
           [] c.cmd = "tags list" ->
                PrintTable(value.rows, <<"name", "title", "count", "path">>)
           [] c.cmd = "tags create" ->
                <<PrintSuccess(<<"Tag created: ", c.args.title>>),
                  Log("Path:", KeyStr(value.path))>>
           [] c.cmd = "tags delete" -> <<PrintSuccess(<<"Tag deleted successfully">>)>>

\* the try / catch of a handler around its operation
HandlerOutput(c, o) ==
    IF o.ok THEN SuccessOutput(c, o.value) ELSE <<PrintError(o.error.message)>>

\* process.exit(1) in the catch block, a normal end otherwise
HandlerExit(o) == IF o.ok THEN 0 ELSE 1

----------------------------------------------------------------------------
(* Inputs *)

DEFAULT_LIMIT == 20

Paths == {<<"/", "a">>, <<"/", "b">>}
\* '/content/dam', the default of listAssets and of 'assets list --path'
ContentDam == <<"/", "c", "o", "n", "t", "e", "n", "t", "/", "d", "a", "m">>
ListPaths == {ContentDam}
Names == {<<"n">>}
Titles == {Str("T")}
Templates == {Str(""), Str("/apps/t")}
Descriptions == {Undefined, Str("desc")}
MimeTypes == {Str("application/octet-stream")}

\* the decimal digits of n
RECURSIVE Digits(_)
Digits(n) ==
    IF n < 10 THEN <<ToString(n)>> ELSE Digits(n \div 10) \o <<ToString(n % 10)>>

\* values of --limit; '20' is the option's default
LimitOptions == {Digits(n) : n \in 0..MaxLimit} \cup {<<"2", "0">>}
\* values of the limit parameter in a direct call; 20 is the parameter's default
Limits == 0..MaxLimit \cup {DEFAULT_LIMIT}

UsernameValues == {Undefined, Str(""), Str("admin")}
PasswordValues == {Undefined, Str(""), Str("pw1"), Str("pw2")}
BaseUrlValues == {Undefined, Str("http://aem")}
Stores == [username : UsernameValues, password : PasswordValues, baseUrl : BaseUrlValues]

\* options of 'config set': an option not given is undefined
SetOptions ==
    [username : {Undefined, Str("admin")}, password : {Undefined, Str("pw2")},
     baseUrl : {Undefined, Str("http://aem")}]
GetKeys == ConfigKeys \cup {"nosuch"}

ListArgs == [path : ListPaths, limit : Limits]
PathArgs == [path : Paths]
UploadArgs == [damPath : ListPaths, fileName : Names, mimeType : MimeTypes]
CreatePageArgs(templates) ==
    [parent : ListPaths, name : Names, title : Titles, template : templates]
TagsListArgs == [namespace : ListPaths]
CreateTagArgs ==
    [namespace : ListPaths, name : Names, title : Titles, description : Descriptions]

\* the arguments a direct caller may pass to an operation
DirectArgs(op) ==
    CASE op \in {"listAssets", "listPages"} -> ListArgs
      [] op \in {"getAsset", "getPage", "deleteTag"} -> PathArgs
      [] op = "uploadAsset" -> UploadArgs
      [] op = "createPage" -> CreatePageArgs(Templates \cup {Undefined})
      [] op = "listTags" -> TagsListArgs
      [] op = "createTag" -> CreateTagArgs

Command(cmd, op, json, args) ==
    [cmd |-> cmd, op |-> op, cli |-> TRUE, json |-> json, args |-> args]
NoCall == [cmd |-> "", op |-> "", cli |-> FALSE, json |-> FALSE, args |-> <<>>]
NoOutcome == [ok |-> FALSE, error |-> [name |-> "none"]]
NoAnswer == [ok |-> FALSE, error |-> [name |-> "none"]]
\* a store file that does not exist yet: no key is set
EmptyStore == [username |-> Undefined, password |-> Undefined, baseUrl |-> Undefined]

----------------------------------------------------------------------------
(* Steps *)

\* the operation's promise settles with o; a CLI handler prints and the
\* process ends, a direct caller gets o
Settle(c, o) ==
    /\ outcome' = o
    /\ IF c.cli
       THEN /\ out' = out \o HandlerOutput(c, o)
            /\ exitCode' = HandlerExit(o)
            /\ pc' = "exited"
       ELSE /\ pc' = "returned"
            /\ UNCHANGED <<out, exitCode>>

\* an operation up to its await: getClient, then the request
StartOperation(c) ==
    LET client == GetClient(store)
    IN IF client.ok
       THEN /\ requests' = Append(requests,
                                  [client |-> client.value] @@ OpRequest(c.op, c.args))
            /\ pc' = "awaiting"
            /\ UNCHANGED <<outcome, out, exitCode>>
       ELSE /\ Settle(c, Caught(client, store))
            /\ UNCHANGED requests

\* requireAuth(), then the operation
Invoke(c) ==
    /\ pc = "ready"
    /\ call' = c
    /\ UNCHANGED <<store, response, written>>
    /\ IF ~IsConfigured(store)
       THEN /\ out' = out \o RequireAuthOutput
            /\ exitCode' = 1
            /\ pc' = "exited"
            /\ UNCHANGED <<requests, outcome>>
       ELSE StartOperation(c)

\* the server's answer arrives and the handler of command cmd runs to its end
Done(cmd) ==
    /\ pc = "awaiting"
    /\ call.cli
    /\ call.cmd = cmd
    /\ \E answer \in Answers(call.op) :
           /\ response' = answer
           /\ Settle(call, OpOutcome(call.op, call.args, answer, store))
    /\ UNCHANGED <<store, call, requests, written>>

\* 'config set' writing every option, given or not
SetConfig_all(s, options) ==
    [username |-> options.username, password |-> options.password,
     baseUrl |-> options.baseUrl]

\* store.set for each option given, in the order of the handler
SetConfig(s, options) ==
    [username |-> IF Truthy(options.username) THEN options.username ELSE s.username,
     password |-> IF Truthy(options.password) THEN options.password ELSE s.password,
     baseUrl |-> IF Truthy(options.baseUrl) THEN options.baseUrl ELSE s.baseUrl]

ConfigSetOutput(options) ==
    (IF Truthy(options.username) THEN <<PrintSuccess(<<"Username set">>)>> ELSE <<>>)
    \o (IF Truthy(options.password) THEN <<PrintSuccess(<<"Password set">>)>> ELSE <<>>)
    \o (IF Truthy(options.baseUrl)
        THEN <<PrintSuccess(<<"Base URL set to: ", options.baseUrl.s>>)>> ELSE <<>>)
    \o (IF ~Truthy(options.username) /\ ~Truthy(options.password)
           /\ ~Truthy(options.baseUrl)
        THEN <<PrintError(<<"No options provided. Use --username, --password, or --base-url">>)>>
        ELSE <<>>)

ConfigSet ==
    /\ pc = "ready"
    /\ \E options \in SetOptions :
          /\ call' = Command("config set", "", FALSE, options)
          /\ store' = SetConfig(store, options)
          /\ out' = out \o ConfigSetOutput(options)
    /\ exitCode' = 0
    /\ pc' = "exited"
    /\ UNCHANGED <<requests, response, outcome, written>>

\* 'config get' without the mask
ConfigGetOutput_plain(s, key) ==
    IF GetConfig(s, key) = Undefined
    THEN <<PrintError(<<"Key \"", key, "\" not found">>)>>
    ELSE <<Log("", GetConfig(s, key))>>

ConfigGetOutput(s, key) ==
    IF GetConfig(s, key) = Undefined
    THEN <<PrintError(<<"Key \"", key, "\" not found">>)>>
    ELSE <<Log("", IF key = "password" THEN Str("****") ELSE GetConfig(s, key))>>

ConfigGet ==
    /\ pc = "ready"
    /\ \E key \in GetKeys :
          /\ call' = Command("config get", "", FALSE, [key |-> key])
          /\ out' = out \o ConfigGetOutput(store, key)
    /\ exitCode' = 0
    /\ pc' = "exited"
    /\ UNCHANGED <<store, requests, response, outcome, written>>

ConfigListOutput(all) ==
    <<Log("Adobe AEM CLI Configuration", Undefined),
      Log("Username: ", IF Truthy(all.username) THEN all.username ELSE Str("not set")),
      Log("Password: ", IF Truthy(all.password) THEN Str("****") ELSE Str("not set")),
      Log("Base URL: ", IF Truthy(all.baseUrl) THEN all.baseUrl
                        ELSE Str("using default: http://localhost:4502")),
      Log("", Undefined)>>

ConfigList ==
    /\ pc = "ready"
    /\ call' = Command("config list", "", FALSE, <<>>)
    /\ out' = out \o ConfigListOutput(store)
    /\ exitCode' = 0
    /\ pc' = "exited"
    /\ UNCHANGED <<store, requests, response, outcome, written>>

\* commander rejects an option the command does not declare
UnknownOption ==
    /\ pc = "ready"
    /\ \E cmd \in Commands \ JsonCommands :
          call' = Command(cmd, "", TRUE, <<>>)
    /\ out' = out \o <<[fd |-> "stderr", kind |-> "commander",
                         text |-> <<"error: unknown option '--json'">>]>>
    /\ exitCode' = 1
    /\ pc' = "exited"
    /\ UNCHANGED <<store, requests, response, outcome, written>>

AssetsList ==
    /\ pc = "ready"
    /\ \E path \in ListPaths, limit \in LimitOptions, json \in BOOLEAN :
           Invoke(Command("assets list", "listAssets", json,
                          [path |-> path, limit |-> ParseInt(limit)]))
AssetsListDone ==
    /\ pc = "awaiting"
    /\ Done("assets list")

AssetsGet ==
    /\ pc = "ready"
    /\ \E a \in PathArgs, json \in BOOLEAN :
           Invoke(Command("assets get", "getAsset", json, a))
AssetsGetDone ==
    /\ pc = "awaiting"
    /\ Done("assets get")

AssetsUpload ==
    /\ pc = "ready"
    /\ \E a \in UploadArgs, json \in BOOLEAN :
           Invoke(Command("assets upload", "uploadAsset", json, a))
AssetsUploadDone ==
    /\ pc = "awaiting"
    /\ Done("assets upload")

PagesList ==
    /\ pc = "ready"
    /\ \E path \in ListPaths, limit \in LimitOptions, json \in BOOLEAN :
           Invoke(Command("pages list", "listPages", json,
                          [path |-> path, limit |-> ParseInt(limit)]))
PagesListDone ==
    /\ pc = "awaiting"
    /\ Done("pages list")

PagesGet ==
    /\ pc = "ready"
    /\ \E a \in PathArgs, json \in BOOLEAN :
           Invoke(Command("pages get", "getPage", json, a))
PagesGetDone ==
    /\ pc = "awaiting"
    /\ Done("pages get")

\* --template defaults to the foundation page template
PagesCreate ==
    /\ pc = "ready"
    /\ \E a \in CreatePageArgs(Templates \cup {DEFAULT_TEMPLATE}), json \in BOOLEAN :
           Invoke(Command("pages create", "createPage", json, a))
PagesCreateDone ==
    /\ pc = "awaiting"
    /\ Done("pages create")

TagsList ==
    /\ pc = "ready"
    /\ \E a \in TagsListArgs, json \in BOOLEAN :
           Invoke(Command("tags list", "listTags", json, a))
TagsListDone ==
    /\ pc = "awaiting"
    /\ Done("tags list")

TagsCreate ==
    /\ pc = "ready"
    /\ \E a \in CreateTagArgs, json \in BOOLEAN :
           Invoke(Command("tags create", "createTag", json, a))
TagsCreateDone ==
    /\ pc = "awaiting"
    /\ Done("tags create")

TagsDelete ==
    /\ pc = "ready"
    /\ \E a \in PathArgs : Invoke(Command("tags delete", "deleteTag", FALSE, a))

TagsDeleteDone ==
    /\ pc = "awaiting"
    /\ Done("tags delete")

\* a caller of the module calls an exported operation
DirectCall ==
    /\ pc = "ready"
    /\ \E op \in Operations : \E a \in DirectArgs(op) :
          LET c == [cmd |-> "", op |-> op, cli |-> FALSE, json |-> FALSE, args |-> a]
          IN call' = c /\ StartOperation(c)
    /\ UNCHANGED <<store, response, written>>

DirectReturn ==
    /\ pc = "awaiting"
    /\ ~call.cli
    /\ \E answer \in Answers(call.op) :
           /\ response' = answer
           /\ Settle(call, OpOutcome(call.op, call.args, answer, store))
    /\ UNCHANGED <<store, call, requests, written>>

Init ==
    /\ store \in Stores
    /\ pc = "ready"
    /\ call = NoCall
    /\ requests = <<>>
    /\ response = NoAnswer
    /\ outcome = NoOutcome
    /\ out = <<>>
    /\ exitCode = 0
    /\ written = EmptyStore

Next ==
    \/ ConfigSet \/ ConfigGet \/ ConfigList \/ UnknownOption
    \/ AssetsList \/ AssetsListDone
    \/ AssetsGet \/ AssetsGetDone
    \/ AssetsUpload \/ AssetsUploadDone
    \/ PagesList \/ PagesListDone
    \/ PagesGet \/ PagesGetDone
    \/ PagesCreate \/ PagesCreateDone
    \/ TagsList \/ TagsListDone
    \/ TagsCreate \/ TagsCreateDone
    \/ TagsDelete \/ TagsDeleteDone
    \/ DirectCall \/ DirectReturn

Spec == Init /\ [][Next]_vars

\* The process has ended and the program is started again: everything but
\* the store (a file of Conf) starts afresh.  The history remembers what the
\* invocation that ended wrote, if it was a 'config set'.
NextInvocation ==
    /\ pc \in {"exited", "returned"}
    /\ pc' = "ready"
    /\ call' = NoCall
    /\ requests' = <<>>
    /\ response' = NoAnswer
    /\ outcome' = NoOutcome
    /\ out' = <<>>
    /\ exitCode' = 0
    /\ written' =
          IF call.cmd = "config set" /\ ~call.json
          THEN [k \in ConfigKeys |->
                   IF call.args[k] # Undefined THEN call.args[k] ELSE written[k]]
          ELSE written
    /\ UNCHANGED store

\* a fresh installation: the store is empty
InitFresh ==
    /\ store = EmptyStore
    /\ pc = "ready"
    /\ call = NoCall
    /\ requests = <<>>
    /\ response = NoAnswer
    /\ outcome = NoOutcome
    /\ out = <<>>
    /\ exitCode = 0
    /\ written = EmptyStore

NextSessions == Next \/ NextInvocation

\* any number of invocations, one after the other, from a fresh installation
SpecSessions == InitFresh /\ [][NextSessions]_vars

----------------------------------------------------------------------------
(* Properties *)

\* the invocation is over
Finished == pc \in {"exited", "returned"}
\* a resource operation was called and has returned or thrown
OpFinished == Finished /\ call.op \in Operations /\ outcome # NoOutcome
\* the server answered the request
Answered == Finished /\ Len(requests) = 1 /\ response # NoAnswer
Unset(v) == v = Undefined \/ v = Str("")

\* C1: with username or password unset or empty, a resource operation issues
\* no HTTP request, and a called operation throws the 'credentials not
\* configured' error.
C1_NotConfiguredBeforeRequest ==
    (pc # "ready" /\ call.op \in Operations
        /\ (Unset(store.username) \/ Unset(store.password)))
    => /\ requests = <<>>
       /\ ~call.cli =>
             /\ pc = "returned"
             /\ ~outcome.ok
             /\ outcome.error.name = "Error"
             /\ outcome.error.message =
                  <<"AEM credentials not configured. Run: adobe config set --username admin --password admin">>

\* C1 witness: deleteTag called directly with a username and an empty password
C1_Witness ==
    /\ pc = "returned"
    /\ call.op = "deleteTag"
    /\ store.username = Str("admin")
    /\ store.password = Str("")
    /\ ~outcome.ok
    /\ outcome.error.message = MsgNotConfigured
    /\ requests = <<>>

\* C2 (as claimed): listAssets and listPages called with limit N return at
\* most N rows, for every N >= 0.
C2_AtMostLimitRows ==
    (OpFinished /\ call.op \in {"listAssets", "listPages"} /\ outcome.ok)
    => Len(outcome.value.rows) <= call.args.limit

\* the keys of the children the claim C3 says are retained, in document order
RECURSIVE ClaimedNames(_, _)
ClaimedNames(op, data) ==
    IF data = <<>> THEN <<>>
    ELSE LET e == Head(data)
             metadata == StartsWith(e.k, JcrPrefix) \/ e.k = RepPolicy
             kept == IF op = "listAssets"
                     THEN /\ e.v.t = "object"
                          /\ "jcr:primaryType" \in DOMAIN e.v.props
                          /\ Truthy(e.v.props["jcr:primaryType"])
                     ELSE e.v.t \in {"object", "array", "null"}
         IN (IF ~metadata /\ kept THEN <<e.k>> ELSE <<>>)
            \o ClaimedNames(op, Tail(data))

RowNames(rows) == [i \in 1..Len(rows) |-> rows[i].name]

\* C3 (as claimed): a listing the limit does not cut completes with a row for
\* exactly the children named by the claim: for assets the objects bearing a
\* non-empty jcr:primaryType, for pages and tags every object-valued child,
\* null and arrays included.
C3_RetainedChildren ==
    (Answered /\ response.ok /\ call.op \in {"listAssets", "listPages", "listTags"}
        /\ (call.op = "listTags" \/ call.args.limit > Len(response.data)))
    => /\ outcome.ok
       /\ RowNames(outcome.value.rows) = ClaimedNames(call.op, response.data)

\* C4: no row of listAssets, listPages or listTags is named by a key that
\* starts with 'jcr:' or equals 'rep:policy'.
C4_NoMetadataRows ==
    (OpFinished /\ call.op \in {"listAssets", "listPages", "listTags"} /\ outcome.ok)
    => \A i \in 1..Len(outcome.value.rows) :
          /\ SubSeq(outcome.value.rows[i].name, 1, 4) # <<"j", "c", "r", ":">>
          /\ outcome.value.rows[i].name # RepPolicy

\* C4 witness: a listing returned a row from a document that also holds an
\* object under rep:policy
C4_Witness ==
    /\ Answered /\ response.ok /\ outcome.ok
    /\ call.op \in {"listPages", "listTags"}
    /\ \E i \in 1..Len(response.data) :
          response.data[i].k = RepPolicy /\ response.data[i].v = ObjAsset
    /\ Len(outcome.value.rows) = 1

\* C5: what 'config get password' and 'config list' print is the same for
\* every non-empty stored password: the mask '****'; and 'config list' prints
\* 'using default' for an unset base URL.
C5_PasswordMasked ==
    /\ (pc = "exited" /\ call.cmd = "config get" /\ ~call.json
           /\ call.args.key = "password" /\ ~Unset(store.password))
       => /\ out = <<Log("", Str("****"))>>
          /\ \A p \in PasswordValues \ {Undefined, Str("")} :
                out = ConfigGetOutput([store EXCEPT !.password = p], "password")
    /\ (pc = "exited" /\ call.cmd = "config list" /\ ~call.json)
       => /\ ~Unset(store.password) =>
                /\ out[3] = Log("Password: ", Str("****"))
                /\ \A p \in PasswordValues \ {Undefined, Str("")} :
                      out = ConfigListOutput([store EXCEPT !.password = p])
          /\ store.baseUrl = Undefined =>
                out[4] = Log("Base URL: ", Str("using default: http://localhost:4502"))

\* C5 witness: 'config get password' ran on a store holding the password pw2
C5_Witness ==
    /\ pc = "exited" /\ call.cmd = "config get" /\ ~call.json
    /\ call.args.key = "password"
    /\ store.password = Str("pw2")
    /\ Len(out) = 1

\* C6 (as claimed): getAsset(p) and getPage(p) return the server's document
\* with a field 'path' equal to p and every other property unchanged, also
\* when the document carries a 'path' property.
C6_PathInjected ==
    (Answered /\ response.ok /\ call.op \in {"getAsset", "getPage"})
    => /\ outcome.ok
       /\ DocGet(outcome.value.entries, KeyPath) = KeyStr(call.args.path)
       /\ \A i \in 1..Len(response.data) :
             response.data[i].k # KeyPath =>
                DocGet(outcome.value.entries, response.data[i].k) = response.data[i].v

\* a line printed through printError
ErrorPrinted == \E i \in 1..Len(out) : out[i].kind = "error"

\* C7 (as claimed): a command that ran exits with status 1 exactly when it
\* printed a message through the failure marker, and with 0 otherwise.
C7_ExitStatus ==
    (pc = "exited" /\ ~(call.json /\ call.cmd \notin JsonCommands))
    => (exitCode = 1 <=> ErrorPrinted) /\ exitCode \in {0, 1}

\* C8: an HTTP error response makes the operation throw; 401, 403, 404 and
\* 500 each give their fixed message whatever the body is; the command that
\* called the operation prints that message and exits with status 1.
C8_HttpErrorSurfaces ==
    (Answered /\ ~response.ok /\ response.error.response # Undefined)
    => LET status == response.error.response.status
       IN /\ ~outcome.ok
          /\ status = 404 => outcome.error.message = <<"Resource not found in AEM.">>
          /\ status = 401 =>
                outcome.error.message =
                    <<"Authentication failed. Check your AEM credentials.">>
          /\ status = 403 =>
                outcome.error.message =
                    <<"Access forbidden. Check your AEM user permissions.">>
          /\ status = 500 =>
                outcome.error.message = <<"AEM server error. Check your AEM instance.">>
          /\ call.cli =>
                /\ pc = "exited"
                /\ exitCode = 1
                /\ out = <<PrintError(outcome.error.message)>>

\* C8 witness: 'assets list' got a 404 whose body carries a message of its own
C8_Witness ==
    /\ Answered /\ call.cmd = "assets list"
    /\ ~response.ok
    /\ response.error = AxiosError(404, Obj("message" :> Str("bad")))
    /\ exitCode = 1

\* C9: an invocation issues at most one HTTP request; 'tags delete <path>'
\* with credentials configured issues exactly one, a DELETE of the path as
\* given, and deleteTag returns undefined on success.
C9_OneRequest ==
    /\ Len(requests) <= 1
    /\ (call.cmd = "tags delete" /\ ~call.json /\ pc # "ready"
           /\ ~Unset(store.username) /\ ~Unset(store.password))
       => /\ Len(requests) = 1
          /\ requests[1].method = "DELETE"
          /\ requests[1].url = call.args.path
          /\ (pc = "exited" /\ response.ok) => outcome = Return(Undefined)

\* C9 witness: 'tags delete /b' succeeded
C9_Witness ==
    /\ pc = "exited" /\ call.cmd = "tags delete" /\ ~call.json
    /\ call.args.path = <<"/", "b">>
    /\ response.ok
    /\ exitCode = 0
    /\ Len(requests) = 1

\* C10 (as claimed): every subcommand accepts --json and with it prints the
\* operation's result as JSON.
C10_AllCommandsJson ==
    (pc = "exited" /\ call.cli /\ call.json)
    => /\ \A i \in 1..Len(out) : out[i].kind # "commander"
       /\ (outcome # NoOutcome /\ outcome.ok) => out = PrintJson(outcome.value)

RECURSIVE RetainedAssets(_)
RetainedAssets(data) ==
    IF data = <<>> THEN <<>>
    ELSE LET e == Head(data)
             kept == /\ ~(StartsWith(e.k, JcrPrefix) \/ e.k = RepPolicy)
                     /\ e.v.t = "object"
                     /\ "jcr:primaryType" \in DOMAIN e.v.props
                     /\ e.v.props["jcr:primaryType"] \notin {Str(""), Undefined, Null}
         IN (IF kept THEN <<e>> ELSE <<>>) \o RetainedAssets(Tail(data))

\* the field f of child v's jcr:content when it is present (and, with
\* nonEmpty, is not the empty string), fallback otherwise
ContentField(v, f, fallback, nonEmpty) ==
    IF /\ "jcr:content" \in DOMAIN v.props
       /\ v.props["jcr:content"].t = "object"
       /\ f \in DOMAIN v.props["jcr:content"].props
       /\ (nonEmpty => v.props["jcr:content"].props[f] # Str(""))
    THEN v.props["jcr:content"].props[f]
    ELSE fallback

\* row is the row of child e of the document fetched at path
RowOf(row, e, path, nonEmpty) ==
    /\ row.name = e.k
    /\ row.path = path \o <<"/">> \o e.k
    /\ row.type = e.v.props["jcr:primaryType"]
    /\ row.title = ContentField(e.v, "jcr:title", KeyStr(e.k), nonEmpty)
    /\ row.mimeType = ContentField(e.v, "jcr:mimeType", Str("N/A"), nonEmpty)

\* the rows of a listAssets that returned are the rows of the retained
\* children, in document order, all of them when the limit exceeds the
\* document's length
AssetRowsAre(nonEmpty) ==
    (Answered /\ response.ok /\ call.op = "listAssets" /\ outcome.ok)
    => LET rows == outcome.value.rows
           kept == RetainedAssets(response.data)
       IN /\ Len(rows) <= Len(kept)
          /\ call.args.limit > Len(response.data) => Len(rows) = Len(kept)
          /\ \A i \in 1..Len(rows) : RowOf(rows[i], kept[i], call.args.path, nonEmpty)

\* {jcr:primaryType: x, img1: {jcr:primaryType: dam:Asset, jcr:content: {jcr:title: Photo}}}
ExampleDocument ==
    <<[k |-> KeyJcrPrimaryType, v |-> Str("x")],
      [k |-> KeyImg1,
       v |-> Obj("jcr:primaryType" :> Str("dam:Asset")
                 @@ "jcr:content" :> Obj("jcr:title" :> Str("Photo")))]>>

\* the example of C12: that document at /content/dam with limit 20 gives the
\* one row {img1, /content/dam/img1, dam:Asset, Photo, N/A}
ExampleRow ==
    (Answered /\ response.ok /\ call.op = "listAssets"
        /\ response.data = ExampleDocument
        /\ call.args.path = <<"/", "c", "o", "n", "t", "e", "n", "t", "/", "d", "a", "m">>
        /\ call.args.limit = 20)
    => /\ outcome.ok
       /\ Len(outcome.value.rows) = 1
       /\ LET row == outcome.value.rows[1]
          IN /\ row.name = <<"i", "m", "g", "1">>
             /\ row.path = <<"/", "c", "o", "n", "t", "e", "n", "t", "/", "d", "a", "m",
                             "/", "i", "m", "g", "1">>
             /\ row.type = Str("dam:Asset")
             /\ row.title = Str("Photo")
             /\ row.mimeType = Str("N/A")

\* C12 (as claimed): each row of listAssets has name k, path p/k, the child's
\* type, the child's jcr:title when that field is present and k when it is
\* absent, the child's jcr:mimeType when present and 'N/A' when absent; rows
\* are in document order; the example gives its one row.
C12_AssetRowsAsClaimed == AssetRowsAre(FALSE) /\ ExampleRow

\* C12 (amended): as claimed, with jcr:title and jcr:mimeType taken when
\* present and not empty, and the fallback (k, 'N/A') taken otherwise.
C12_AssetRows == AssetRowsAre(TRUE) /\ ExampleRow

\* C12 witness: two assets listed in document order, the first with a MIME
\* type and an empty title, the second with a title and no MIME type
C12_Witness ==
    /\ Answered /\ response.ok /\ call.op = "listAssets" /\ outcome.ok
    /\ response.data = <<[k |-> KeyImg1, v |-> ObjAssetMime],
                         [k |-> KeyPath, v |-> ObjAssetTitled]>>
    /\ Len(outcome.value.rows) = 2
    /\ outcome.value.rows[1].mimeType = Str("image/png")
    /\ outcome.value.rows[2].title = Str("Photo")

\* C12 witness of the example: the example document was listed
C12_ExampleReached ==
    /\ Answered /\ response.ok /\ call.op = "listAssets"
    /\ response.data = ExampleDocument
    /\ call.args.limit = 20

\* C13: a createPage that returns gives back, as template, the cq:template
\* value it sent in the request payload, and, as path, parent + '/' + name;
\* calls with the template omitted or empty included.
C13_TemplateAsSent ==
    (Answered /\ response.ok /\ call.op = "createPage")
    => /\ outcome.ok
       /\ outcome.value.template = requests[1].body.template
       /\ outcome.value.path = call.args.parent \o <<"/">> \o call.args.name

====
